---------------------------- MODULE Spec2Model ----------------------------
(***************************************************************************)
(* A model of image_processing_drawbox_helper.py: a batch driver that logs *)
(* in to a prediction service, sends every image of an input folder for    *)
(* prediction, draws the returned boxes and writes a preview, a LabelMe    *)
(* annotation document and a copy of the original into an output folder.   *)
(*                                                                         *)
(* File names are sequences of one-character strings, so that lower(),     *)
(* endswith(), basename() and splitext() are computed as Python computes   *)
(* them.  A Python exception that nothing catches ends the run with        *)
(* run = "raised"; a return of main() ends it with run = "returned".       *)
(***************************************************************************)
EXTENDS Integers, Sequences, FiniteSets, TLC

\* ------------------------------------------------------------------ bounds
\* Largest number of entries of the input folder.
MaxFiles == 2
\* Largest number of Detection Records in one prediction response.
MaxPreds == 2
\* Number of distinct class names the colour registry is called with.
NumClasses == 13

\* ------------------------------------------------------------ configuration
INPUT_FOLDER == <<"input_images">>
OUTPUT_FOLDER == <<"labelme_output">>
Sep == "/"

\* os.path.join(folder, name)
Join(folder, name) == folder \o <<Sep>> \o name

\* ------------------------------------------------------------ string tools
Range(s) == {s[i] : i \in 1..Len(s)}

SetMax(S) == CHOOSE m \in S : \A n \in S : n <= m

\* str.lower() on one character: the upper-case letters of the model's
\* alphabet map to their lower-case letters, everything else to itself.
LowerChar(c) ==
    CASE c = "A" -> "a"
      [] c = "B" -> "b"
      [] c = "E" -> "e"
      [] c = "G" -> "g"
      [] c = "J" -> "j"
      [] c = "N" -> "n"
      [] c = "P" -> "p"
      [] OTHER -> c

Lower(s) == [i \in 1..Len(s) |-> LowerChar(s[i])]

\* str.endswith(suffix)
EndsWith(s, suf) ==
    /\ Len(suf) <= Len(s)
    /\ SubSeq(s, Len(s) - Len(suf) + 1, Len(s)) = suf

\* str.endswith(tuple of suffixes)
EndsWithAny(s, sufs) == \E i \in 1..Len(sufs) : EndsWith(s, sufs[i])

allowed_extensions ==
    << <<".", "p", "n", "g">>, <<".", "j", "p", "g">>, <<".", "j", "p", "e", "g">> >>

\* os.path.basename: what follows the last separator.
Basename(path) ==
    LET seps == {i \in 1..Len(path) : path[i] = Sep}
    IN  IF seps = {} THEN path ELSE SubSeq(path, SetMax(seps) + 1, Len(path))

\* os.path.splitext(name)[0]: the name up to its last dot, unless that dot
\* has only dots before it (a leading dot starts no extension).
SplitextStem(name) ==
    LET dots == {i \in 1..Len(name) : name[i] = "."}
    IN  IF dots = {} THEN name
        ELSE LET d == SetMax(dots)
             IN  IF \A i \in 1..(d - 1) : name[i] = "." THEN name
                 ELSE SubSeq(name, 1, d - 1)

\* Mutant of FilterImages: the filter is missing.
FilterImagesNoFilter(entries) == entries

\* The list comprehension of main(): the entries that pass the filter, in
\* the order os.listdir gave them.
FilterImages(entries) ==
    SelectSeq(entries, LAMBDA f : EndsWithAny(Lower(f), allowed_extensions))

\* ----------------------------------------------------------- colour registry
color_palette ==
    << <<255, 0, 0>>, <<0, 255, 0>>, <<0, 0, 255>>, <<255, 255, 0>>,
       <<255, 0, 255>>, <<0, 255, 255>>, <<128, 0, 0>>, <<0, 128, 0>>,
       <<0, 0, 128>>, <<128, 128, 0>>, <<128, 0, 128>>, <<0, 128, 128>> >>

\* A dict with key k set to v.
DictSet(d, k, v) == [x \in DOMAIN d \cup {k} |-> IF x = k THEN v ELSE d[x]]

EmptyDict == [x \in {} |-> <<>>]

\* Mutants of get_color_for_class.
GetColorNoLookup(colors, class_name) ==
    LET assigned_color ==
            color_palette[(Cardinality(DOMAIN colors) % Len(color_palette)) + 1]
    IN  [ret |-> assigned_color,
         colors |-> DictSet(colors, class_name, assigned_color)]

GetColorOffByOne(colors, class_name) ==
    IF class_name \in DOMAIN colors
    THEN [ret |-> colors[class_name], colors |-> colors]
    ELSE LET assigned_color ==
                 color_palette[(Cardinality(DOMAIN colors) % (Len(color_palette) - 1)) + 1]
         IN  [ret |-> assigned_color,
              colors |-> DictSet(colors, class_name, assigned_color)]

\* get_color_for_class(class_name) on the global dict class_colors: the
\* value returned and the dict afterwards.  len(class_colors) is the number
\* of keys; Python's list index i is the sequence index i + 1.
get_color_for_class(colors, class_name) ==
    IF class_name \in DOMAIN colors
    THEN [ret |-> colors[class_name], colors |-> colors]
    ELSE LET assigned_color ==
                 color_palette[(Cardinality(DOMAIN colors) % Len(color_palette)) + 1]
         IN  [ret |-> assigned_color,
              colors |-> DictSet(colors, class_name, assigned_color)]


\* ------------------------------------------------------- the environment
\* Names the input folder may hold.  Two share a stem, one is upper case,
\* one is no image.
FileNames ==
    { <<"a", ".", "j", "p", "g">>,
      <<"a", ".", "P", "N", "G">>,
      <<"b", ".", "j", "p", "e", "g">>,
      <<"n", ".", "t", "x", "t">> }

RECURSIVE SeqsUpTo(_, _)
\* The sequences over S of length at most n.
SeqsUpTo(S, n) ==
    IF n = 0 THEN {<<>>}
    ELSE LET shorter == SeqsUpTo(S, n - 1)
         IN  shorter \cup {Append(s, x) : s \in {t \in shorter : Len(t) = n - 1}, x \in S}

\* What os.listdir can return: distinct names, in any order.
Listings ==
    {s \in SeqsUpTo(FileNames, MaxFiles) : \A i, j \in 1..Len(s) : i # j => s[i] # s[j]}

ClassPool ==
    <<"cat", "dog", "bird", "fish", "horse", "sheep", "cow", "pig", "goat",
      "duck", "frog", "bee", "ant", "owl", "fox", "bat", "rat", "elk">>

ClassNames == {ClassPool[i] : i \in 1..NumClasses}

\* The bytes of an input file, as the name of the file they are read from.
FileBytes(image_path) == <<"bytes", Basename(image_path)>>

\* base64.b64encode(...).decode('utf-8') of those bytes.
B64Encode(bytes) == <<"base64", bytes>>

\* The size of every decoded image.
ImageSize == <<64, 48>>

DetFields == {"x", "y", "w", "h", "class_name", "confidence"}

\* Detection Records a response may carry (confidence in thousandths); the
\* last one lacks a field.
Detections ==
    { [x |-> 10, y |-> 10, w |-> 50, h |-> 50, class_name |-> "cat", confidence |-> 871],
      [x |-> 3, y |-> 30, w |-> 7, h |-> 2, class_name |-> "dog", confidence |-> 402],
      [x |-> 5, y |-> 6, h |-> 8, class_name |-> "cat", confidence |-> 990] }

\* What one call of process_image meets:
\*   file    the input file when it is opened: "missing", or the mode PIL
\*           decodes it to ("RGB", "RGBA"), or "undecodable"
\*   net_ok  requests.post returned a response (it raised otherwise)
\*   status  the response's status code
\*   json_ok the body parses as a JSON object
\*   body    the parsed object: here its "result" key, when present
PredEnv(file, net_ok, status, json_ok, body) ==
    [file |-> file, net_ok |-> net_ok, status |-> status, json_ok |-> json_ok,
     body |-> body]

NoResult == [k \in {"image_info"} |-> <<>>]

WithResult(preds) == [k \in {"result", "image_info"} |-> IF k = "result" THEN preds ELSE <<>>]

Bodies == {NoResult} \cup {WithResult(p) : p \in SeqsUpTo(Detections, MaxPreds)}

\* The fields a path never reads are fixed, so that two environments that
\* differ only there are one.
PredEnvs ==
    {PredEnv("missing", FALSE, 0, FALSE, NoResult),
     PredEnv("RGB", FALSE, 0, FALSE, NoResult),
     PredEnv("RGB", TRUE, 500, FALSE, NoResult),
     PredEnv("RGB", TRUE, 200, TRUE, NoResult),
     PredEnv("RGB", TRUE, 201, FALSE, NoResult),
     PredEnv("undecodable", TRUE, 201, TRUE, NoResult)}
    \cup {PredEnv(m, TRUE, 201, TRUE, b) : m \in {"RGB", "RGBA"}, b \in Bodies}

\* What the login request meets: net_ok and status as above; token is the
\* body's access_token ("" covers an absent key and an empty string), when
\* the body parses.
LoginEnvs ==
    {[net_ok |-> FALSE, status |-> 0, json_ok |-> FALSE, token |-> ""],
     [net_ok |-> TRUE, status |-> 401, json_ok |-> TRUE, token |-> ""],
     [net_ok |-> TRUE, status |-> 200, json_ok |-> FALSE, token |-> ""],
     [net_ok |-> TRUE, status |-> 200, json_ok |-> TRUE, token |-> ""],
     [net_ok |-> TRUE, status |-> 200, json_ok |-> TRUE, token |-> "tok"]}

\* ------------------------------------------------------------ process_image
\* dict.get(key, default)
DictGet(d, key, default) == IF key \in DOMAIN d THEN d[key] ELSE default

\* f"{class_name}: {confidence:.2f}", the confidence rounded to hundredths.
LabelText(class_name, confidence) == <<class_name, ": ", (confidence + 5) \div 10>>

\* Mutant of Shape: the second corner is (w, h), not (x + w, y + h).
ShapeSizeAsCorner(pred) ==
    [label |-> pred.class_name,
     points |-> << <<pred.x, pred.y>>, <<pred.w, pred.h>> >>,
     group_id |-> "None",
     shape_type |-> "rectangle",
     flags |-> EmptyDict]

\* The shape dict built for one prediction.
Shape(pred) ==
    [label |-> pred.class_name,
     points |-> << <<pred.x, pred.y>>, <<pred.x + pred.w, pred.y + pred.h>> >>,
     group_id |-> "None",
     shape_type |-> "rectangle",
     flags |-> EmptyDict]

\* What draw.rectangle and draw.text put on the image for one prediction.
Drawing(pred, color) ==
    [rectangle |-> << <<pred.x, pred.y>>, <<pred.x + pred.w, pred.y + pred.h>> >>,
     outline |-> color,
     width |-> 2,
     text_at |-> <<pred.x, pred.y - 20>>,
     text |-> LabelText(pred.class_name, pred.confidence),
     fill |-> color]

RECURSIVE DrawLoop(_, _, _)
\* The loop over the predictions, from the i-th on.  acc holds class_colors,
\* the shapes so far, what was drawn so far, and raised: a key of a
\* prediction was missing (KeyError), which ends the loop where it stands.
DrawLoop(predictions, i, acc) ==
    IF i > Len(predictions) THEN acc
    ELSE LET pred == predictions[i]
         IN  IF ~(DetFields \subseteq DOMAIN pred)
             THEN [acc EXCEPT !.raised = TRUE]
             ELSE LET got == get_color_for_class(acc.colors, pred.class_name)
                  IN  DrawLoop(predictions, i + 1,
                               [colors |-> got.colors,
                                shapes |-> Append(acc.shapes, Shape(pred)),
                                drawn |-> Append(acc.drawn, Drawing(pred, got.ret)),
                                raised |-> FALSE])

generate_labelme_json(image_path, shapes, image_width, image_height) ==
    [version |-> "5.0.1",
     flags |-> EmptyDict,
     shapes |-> shapes,
     imagePath |-> Basename(image_path),
     imageData |-> B64Encode(FileBytes(image_path)),
     imageWidth |-> image_width,
     imageHeight |-> image_height]

\* The three paths process_image writes to.
PreviewPath(image_path) ==
    Join(OUTPUT_FOLDER, SplitextStem(Basename(image_path)) \o <<"_prediction.jpg">>)

JsonPath(image_path) ==
    Join(OUTPUT_FOLDER, SplitextStem(Basename(image_path)) \o <<".json">>)

CopyPath(image_path) == Join(OUTPUT_FOLDER, Basename(image_path))

\* The output folder after a write of content to path, and the log of
\* writes after it.
WriteFile(out, path, content) ==
    [files |-> DictSet(out.files, path, content), log |-> Append(out.log, path)]

\* Mutant of PredictionFailed: every 2xx status passes (not resp.ok).
PredictionFailedNotOk(status_code) == status_code \notin 200..299

\* The condition of the early return after the request.
PredictionFailed(status_code) == status_code # 201

\* The state process_image leaves: how it ended ("returned" or "raised"),
\* class_colors, the output folder with its log of writes, and whether the
\* prediction request was sent.
Outcome(end, colors, out, sent) ==
    [end |-> end, colors |-> colors, out |-> out, sent |-> sent]

\* process_image(image_path, ...) in environment env, from class_colors =
\* colors and the output folder out.  Only FileNotFoundError is caught;
\* every other exception leaves the function.
process_image(image_path, env, colors, out) ==
    IF env.file = "missing" THEN Outcome("returned", colors, out, FALSE)
    ELSE IF ~env.net_ok THEN Outcome("raised", colors, out, TRUE)
    ELSE IF PredictionFailed(env.status) THEN Outcome("returned", colors, out, TRUE)
    ELSE IF ~env.json_ok THEN Outcome("raised", colors, out, TRUE)
    ELSE IF env.file = "undecodable" THEN Outcome("raised", colors, out, TRUE)
    ELSE
      LET predictions == DictGet(env.body, "result", <<>>)
          loop == DrawLoop(predictions, 1,
                           [colors |-> colors, shapes |-> <<>>, drawn |-> <<>>,
                            raised |-> FALSE])
          preview == [kind |-> "preview",
                      body |-> [of |-> Basename(image_path), drawn |-> loop.drawn]]
          doc == generate_labelme_json(image_path, loop.shapes,
                                       ImageSize[1], ImageSize[2])
          copy == [kind |-> "copy", body |-> FileBytes(image_path)]
          out1 == WriteFile(out, PreviewPath(image_path), preview)
          out2 == WriteFile(out1, JsonPath(image_path), [kind |-> "json", body |-> doc])
          out3 == WriteFile(out2, CopyPath(image_path), copy)
      IN  IF loop.raised THEN Outcome("raised", loop.colors, out, TRUE)
          ELSE IF env.file = "RGBA"
               \* image.save to a .jpg path raises for a mode JPEG cannot
               \* hold; PIL has opened the file for writing by then, and
               \* removes it again only if it had not existed.
               THEN Outcome("raised", loop.colors,
                            IF PreviewPath(image_path) \in DOMAIN out.files
                            THEN WriteFile(out, PreviewPath(image_path),
                                           [kind |-> "empty", body |-> <<>>])
                            ELSE out,
                            TRUE)
               ELSE Outcome("returned", loop.colors, out3, TRUE)

\* ------------------------------------------------------------------- state
VARIABLES
    phase,         \* the phase main() is in, or ended in
    run,           \* "running", or how main() ended: "returned", "raised"
    login_resp,    \* <<what the login request met>>, once it was sent
    access_token,  \* the token of the login response
    in_exists,     \* the input folder exists
    in_dir,        \* os.listdir of the input folder
    out_exists,    \* the output folder exists
    out,           \* the output folder: files (path -> content) and the log
                   \* of the paths written, in order
    font,          \* the font loaded: "custom", "default", "none" before
    image_files,   \* the filtered list main() iterates
    calls,         \* what each call of process_image so far met, in order
    requests_sent, \* the number of prediction requests sent
    class_colors,  \* the global dict of the colour registry
    arrivals,      \* registry runs: the order in which new class names come
    first_seen,    \* registry runs: the class names called, in first-call order
    last_call      \* registry runs: <<class_name, colour returned>> of the last call

vars ==
    <<phase, run, login_resp, access_token, in_exists, in_dir, out_exists, out,
      font, image_files, calls, requests_sent, class_colors, arrivals,
      first_seen, last_call>>

driver_vars ==
    <<phase, run, login_resp, access_token, in_exists, in_dir, out_exists, out,
      font, image_files, calls, requests_sent>>

registry_vars == <<arrivals, first_seen, last_call>>

\* The number of calls of process_image so far: the position of the loop.
idx == Len(calls)

\* ------------------------------------------------------------------ main()
Init ==
    /\ phase = "Authenticate"
    /\ run = "running"
    /\ login_resp = <<>>
    /\ access_token = ""
    /\ in_exists \in BOOLEAN
    /\ in_dir \in (IF in_exists THEN Listings ELSE {<<>>})
    /\ out_exists \in BOOLEAN
    /\ out = [files |-> EmptyDict, log |-> <<>>]
    /\ font = "none"
    /\ image_files = <<>>
    /\ calls = <<>>
    /\ requests_sent = 0
    /\ class_colors = EmptyDict
    /\ arrivals = <<>>
    /\ first_seen = <<>>
    /\ last_call = <<>>

\* Mutant of LoginEnd: the check of the token is missing.
LoginEndNoTokenCheck(env) ==
    IF ~env.net_ok THEN "raised"
    ELSE IF env.status # 200 THEN "returned"
    ELSE IF ~env.json_ok THEN "raised"
    ELSE "go on"

\* How the login section of main() ends in environment env: "raised",
\* "returned", or "go on".
LoginEnd(env) ==
    IF ~env.net_ok THEN "raised"
    ELSE IF env.status # 200 THEN "returned"
    ELSE IF ~env.json_ok THEN "raised"
    ELSE IF env.token = "" THEN "returned"
    ELSE "go on"

\* 1. Login and get token.
Login ==
    /\ run = "running"
    /\ phase = "Authenticate"
    /\ \E env \in LoginEnvs :
         /\ login_resp' = <<env>>
         /\ access_token' = IF LoginEnd(env) = "go on" THEN env.token ELSE access_token
         /\ run' = IF LoginEnd(env) = "go on" THEN "running" ELSE LoginEnd(env)
         /\ phase' = IF LoginEnd(env) = "go on" THEN "Prepare" ELSE phase
    /\ UNCHANGED <<in_exists, in_dir, out_exists, out, font, image_files, calls,
                   requests_sent, class_colors, registry_vars>>

\* 2. Prepare the output folder, load the font, list and filter the input
\* folder.
Prepare ==
    /\ run = "running"
    /\ phase = "Prepare"
    /\ out_exists' = TRUE
    /\ \E font_found \in BOOLEAN : font' = IF font_found THEN "custom" ELSE "default"
    /\ IF ~in_exists
       THEN /\ run' = "returned"
            /\ UNCHANGED <<phase, image_files>>
       ELSE /\ image_files' = FilterImages(in_dir)
            /\ IF image_files' = <<>>
               THEN run' = "returned" /\ UNCHANGED phase
               ELSE run' = "running" /\ phase' = "Iterate"
    /\ UNCHANGED <<login_resp, access_token, in_exists, in_dir, out, calls,
                   requests_sent, class_colors, registry_vars>>

\* 3. One turn of the loop over image_files: process_image on the next
\* file.  An exception that leaves process_image leaves main(); main()
\* returns after the last file.
Iterate ==
    /\ run = "running"
    /\ phase = "Iterate"
    /\ idx < Len(image_files)
    /\ \E env \in PredEnvs :
         LET image_path == Join(INPUT_FOLDER, image_files[idx + 1])
             res == process_image(image_path, env, class_colors, out)
         IN  /\ calls' = Append(calls, env)
             /\ class_colors' = res.colors
             /\ out' = res.out
             /\ requests_sent' = requests_sent + (IF res.sent THEN 1 ELSE 0)
             /\ run' = IF res.end = "raised" THEN "raised"
                       ELSE IF idx + 1 = Len(image_files) THEN "returned"
                       ELSE "running"
    /\ UNCHANGED <<phase, login_resp, access_token, in_exists, in_dir, out_exists,
                   font, image_files, registry_vars>>

Next == Login \/ Prepare \/ Iterate

Spec == Init /\ [][Next]_vars

\* ------------------------------------------------------- the registry alone
RECURSIVE Rotate(_, _)
Rotate(s, n) == IF n = 0 \/ s = <<>> THEN s ELSE Rotate(Append(Tail(s), Head(s)), n - 1)

Reverse(s) == [i \in 1..Len(s) |-> s[Len(s) + 1 - i]]

AllNames == [i \in 1..NumClasses |-> ClassPool[i]]

\* Orders in which the class names can first come: the rotations of the
\* pool and their reversals.
Arrivals ==
    {Rotate(AllNames, n) : n \in 0..(NumClasses - 1)}
    \cup {Reverse(Rotate(AllNames, n)) : n \in 0..(NumClasses - 1)}

RegistryInit ==
    /\ phase = "Iterate"
    /\ run = "running"
    /\ login_resp = <<>>
    /\ access_token = "tok"
    /\ in_exists = TRUE
    /\ in_dir = <<>>
    /\ out_exists = TRUE
    /\ out = [files |-> EmptyDict, log |-> <<>>]
    /\ font = "default"
    /\ image_files = <<>>
    /\ calls = <<>>
    /\ requests_sent = 0
    /\ class_colors = EmptyDict
    /\ arrivals \in Arrivals
    /\ first_seen = <<>>
    /\ last_call = <<>>

\* One call get_color_for_class(class_name), with a name called before or
\* the next new name.
ColorCall(class_name) ==
    /\ \/ class_name \in Range(first_seen)
       \/ /\ Len(first_seen) < Len(arrivals)
          /\ class_name = arrivals[Len(first_seen) + 1]
    /\ LET got == get_color_for_class(class_colors, class_name)
       IN  /\ class_colors' = got.colors
           /\ last_call' = <<class_name, got.ret>>
    /\ first_seen' = IF class_name \in Range(first_seen) THEN first_seen
                     ELSE Append(first_seen, class_name)
    /\ UNCHANGED <<driver_vars, arrivals>>

RegistryNext == \E class_name \in ClassNames : ColorCall(class_name)

SpecColor == RegistryInit /\ [][RegistryNext]_vars

\* ------------------------------------------------------------------ claims
Last(s) == s[Len(s)]

\* The call of process_image a step makes, when it makes one.
CallMade == calls' # calls
CallEnv == Last(calls')
CallPath == Join(INPUT_FOLDER, image_files[Len(calls')])

\* A prediction response came back with this call.
Answered(env) == env.file # "missing" /\ env.net_ok

\* The three artifacts of an image, by the spec's names.
Stem(name) == SubSeq(name, 1, SetMax({i \in 1..Len(name) : name[i] = "."}) - 1)
ArtifactPaths(name) ==
    {OUTPUT_FOLDER \o <<"/">> \o Stem(name) \o <<"_prediction.jpg">>,
     OUTPUT_FOLDER \o <<"/">> \o Stem(name) \o <<".json">>,
     OUTPUT_FOLDER \o <<"/">> \o name}

\* C1: in the Iterate phase the per-image pipeline is run for every
\* discovered file, whatever happened to the files before it: when the run
\* has ended, process_image has been called once per file of image_files.
C1_EveryFileProcessed ==
    (phase = "Iterate" /\ run # "running") => Len(calls) = Len(image_files)

\* C2: no exception propagates out of a run: main() never ends by raising.
C2_NoExceptionPropagates == run # "raised"

\* C3: a call whose prediction response has a status other than 201 writes
\* nothing to the output folder, leaves class_colors as it was, and the loop
\* goes on: the run has not raised, and is still running if a file is left.
C3_FailedPredictionSkipsImage ==
    [][(CallMade /\ Answered(CallEnv) /\ CallEnv.status # 201)
         => /\ out' = out
            /\ class_colors' = class_colors
            /\ run' # "raised"
            /\ (Len(calls') < Len(image_files) => run' = "running")]_vars

\* C3 witness: an image answered with a status other than 201 was followed
\* by the call for the next file.
C3_Witness ==
    \E i \in 1..(Len(calls) - 1) : Answered(calls[i]) /\ calls[i].status # 201

\* The login response is a failure by the spec's words: a status other than
\* 200, or a 200 whose body has no access_token.
LoginFailed(env) ==
    env.net_ok /\ (env.status # 200 \/ (env.json_ok /\ env.token = ""))

\* C4: when login fails, the run ends in the Authenticate phase, the output
\* folder is neither created nor written to, and no prediction request is
\* sent: every step that leaves a failed login behind leaves the run
\* returned in Authenticate and the output folder as it was.
C4_LoginFailureAborts ==
    [][(login_resp' # <<>> /\ LoginFailed(login_resp'[1]))
         => /\ run' = "returned"
            /\ phase' = "Authenticate"
            /\ out_exists' = out_exists
            /\ out' = out
            /\ out'.log = <<>>
            /\ calls' = <<>>
            /\ requests_sent' = 0]_vars

\* C4 witness: a 200 login response without a token ended the run.
C4_Witness ==
    /\ login_resp # <<>>
    /\ login_resp[1].net_ok /\ login_resp[1].status = 200
    /\ login_resp[1].json_ok /\ login_resp[1].token = ""
    /\ run = "returned"

\* C5: get_color_for_class is stable: a call never removes or changes an
\* entry of class_colors, and a call with a name that has a colour returns
\* exactly that colour.
C5_ColorStable ==
    [][/\ \A c \in DOMAIN class_colors :
            c \in DOMAIN class_colors' /\ class_colors'[c] = class_colors[c]
       /\ \A c \in DOMAIN class_colors :
            (last_call' # <<>> /\ first_seen' = first_seen /\ last_call'[1] = c)
              => last_call'[2] = class_colors[c]]_vars

\* C5 witness: a name other than the newest was called again after newer
\* names got their colours.
C5_Witness ==
    /\ last_call # <<>>
    /\ \E k \in 1..(Len(first_seen) - 1) : last_call[1] = first_seen[k]

\* C6: the k-th distinct class name gets palette entry (k-1) mod 12; up to
\* 12 distinct names get pairwise distinct colours, and the 13th gets the
\* colour of the 1st.
C6_PaletteCycle ==
    /\ \A k \in 1..Len(first_seen) :
         /\ first_seen[k] \in DOMAIN class_colors
         /\ class_colors[first_seen[k]] = color_palette[((k - 1) % 12) + 1]
    /\ \A j, k \in 1..Len(first_seen) :
         (j < k /\ k <= 12) => class_colors[first_seen[j]] # class_colors[first_seen[k]]
    /\ Len(first_seen) >= 13 => class_colors[first_seen[13]] = class_colors[first_seen[1]]

\* C6 witness: thirteen distinct names have been called.
C6_Witness ==
    /\ Len(first_seen) >= 13
    /\ class_colors[first_seen[13]] = <<255, 0, 0>>

\* The path is among those the step writes.
Written(path) == \E k \in (Len(out.log) + 1)..Len(out'.log) : out'.log[k] = path

\* The Detection Records of a response.
Received(env) == IF "result" \in DOMAIN env.body THEN env.body["result"] ELSE <<>>

\* C7: the Annotation Document written for an image has one shape per
\* Detection Record received, in the order received; the i-th shape has the
\* i-th record's class_name as label and [[x, y], [x+w, y+h]] as points.
C7_ShapesMatchDetections ==
    [][CallMade =>
         \A p \in DOMAIN out'.files :
           (Written(p) /\ out'.files[p].kind = "json")
             => /\ p = OUTPUT_FOLDER \o <<"/">> \o Stem(Basename(CallPath)) \o <<".json">>
                /\ LET shapes == out'.files[p].body.shapes
                       recs == Received(CallEnv)
                   IN  /\ Len(shapes) = Len(recs)
                       /\ \A i \in 1..Len(recs) :
                            /\ shapes[i].label = recs[i].class_name
                            /\ shapes[i].points =
                                 << <<recs[i].x, recs[i].y>>,
                                    <<recs[i].x + recs[i].w, recs[i].y + recs[i].h>> >>]_vars

\* C7 witness: a document with two shapes of different labels was written.
C7_Witness ==
    \E p \in DOMAIN out.files :
      /\ out.files[p].kind = "json"
      /\ Len(out.files[p].body.shapes) = 2
      /\ out.files[p].body.shapes[1].label # out.files[p].body.shapes[2].label

\* Every record of the response has the six fields of a Detection Record.
WellFormed(env) ==
    /\ env.json_ok
    /\ \A i \in 1..Len(Received(env)) :
         {"x", "y", "w", "h", "class_name", "confidence"} \subseteq DOMAIN Received(env)[i]

\* C8: every image whose prediction request returns 201 gets all three
\* artifacts written; when the response carries no Detection Record or no
\* result field, the document's shapes list is empty and class_colors is
\* unchanged.  Stated for the images no other sentence of the spec fails:
\* the response parses, its records are complete, the file decodes.
C8_SuccessWritesArtifacts ==
    [][(/\ CallMade
        /\ Answered(CallEnv)
        /\ CallEnv.status = 201
        /\ WellFormed(CallEnv)
        /\ CallEnv.file # "undecodable")
         => /\ \A p \in ArtifactPaths(Basename(CallPath)) :
                 p \in DOMAIN out'.files /\ Written(p)
            /\ Received(CallEnv) = <<>>
                 => /\ class_colors' = class_colors
                    /\ \A p \in DOMAIN out'.files :
                         (Written(p) /\ out'.files[p].kind = "json")
                           => out'.files[p].body.shapes = <<>>]_vars

\* C9: no output file <stem>.json or <stem>_prediction.jpg is written more
\* than once in a run.
C9_WrittenOnce ==
    \A i, j \in 1..Len(out.log) :
      (i # j /\ Last(out.log[i]) \in {".json", "_prediction.jpg"})
        => out.log[i] # out.log[j]

\* One letter, in either case.
SameLetter(c, d) ==
    \/ c = d
    \/ <<c, d>> \in {<<"P", "p">>, <<"N", "n">>, <<"G", "g">>, <<"J", "j">>, <<"E", "e">>}

\* The name ends, in any mix of cases, in .png, .jpg or .jpeg.
ImageName(f) ==
    \E e \in {<<".", "p", "n", "g">>, <<".", "j", "p", "g">>, <<".", "j", "p", "e", "g">>} :
      /\ Len(f) >= Len(e)
      /\ \A i \in 1..Len(e) : SameLetter(f[Len(f) - Len(e) + i], e[i])

\* The input folder is absent or holds no image.
NoInput == ~in_exists \/ \A i \in 1..Len(in_dir) : ~ImageName(in_dir[i])

\* C10: once the Prepare phase has run (the font is loaded) on an input
\* folder that is absent or holds no image, the run has returned in Prepare:
\* no call of process_image, no prediction request, no file written; the
\* output folder exists.
C10_NoInputAborts ==
    (font # "none" /\ NoInput)
      => /\ run = "returned"
         /\ phase = "Prepare"
         /\ calls = <<>>
         /\ requests_sent = 0
         /\ out.log = <<>>
         /\ DOMAIN out.files = {}
         /\ out_exists

\* C10 witness: the run ended in Prepare on a folder that holds a file, and
\* no image.
C10_Witness ==
    /\ font # "none"
    /\ in_exists
    /\ in_dir # <<>>
    /\ NoInput
    /\ run = "returned"

=============================================================================
